---- MODULE Spec2Model ----
(***************************************************************************)
(* State-machine model of go-app/main.go: the telemetry pipeline           *)
(* coordinator (initOtel and the shutdown closure it returns), main's      *)
(* lifecycle (signal context, HTTP server, drain, deferred shutdown) and   *)
(* the instrumented request handlers.                                      *)
(***************************************************************************)
EXTENDS Integers, Sequences, FiniteSets, TLC

\* ------------------------------------------------------------------ bounds
MaxReq == 2      \* HTTP requests (external or the internal hop) per run
MaxDraw == 0     \* largest value the model lets rand.Intn return
MaxExports == 1  \* firings of the export timers per run
MaxFailSkew == 0 \* a failing Do returns within this many ms of the call or of
                 \* the time the /downstream request has reached

\* --------------------------------------------------------------- constants
Nil == "nil"
NoErr == [msg |-> "", cause |-> ""]   \* initOtel's nil error
Req == 1 .. MaxReq
NoReq == 0
Routes == {"/hello", "/work", "/downstream"}

\* A path the mux has no handler for, and the paths a request can ask for.
OtherPath == "/favicon.ico"
Paths == Routes \cup {OtherPath}
Signals == {"trace", "metric", "log"}
SpanKinds == {"server", "handler", "client"}
NoSpan == <<NoReq, "none">>

\* Values the two environment variables can have at process start
\* (os.Getenv returns "" for an unset variable).
ServiceNames == {"", "my-go-app"}
Endpoints == {"", "otel-collector:4317"}

\* The environments the process can start in: the two variables are read
\* independently of each other.
Environments == ServiceNames \X Endpoints

\* The simulated work of the handlers, in milliseconds: the fixed part of each
\* time.Sleep and the bound of its rand.Intn part.
HelloSleepMs == 50
WorkSleep1Ms == 75
WorkSleep1Rand == 50
WorkSleep2Ms == 50
WorkSleep2Rand == 25
DownstreamSleepMs == 100
DownstreamRand == 150

\* time.Duration.Seconds(): the duration as a floating-point number of
\* seconds. The model keeps the value exact, as whole seconds plus
\* milliseconds.
Seconds(ms) == [s |-> ms \div 1000, ms |-> ms % 1000]

\* rand.Intn(n) draws from 0 .. n-1; the model draws the values up to
\* MaxDraw.
RandIntn(n) == {x \in 0 .. n - 1 : x <= MaxDraw}

\* Status codes the response `res` of the outbound call can carry in
\* res.StatusCode.
StatusCodes == {200, 503}

\* Causes a library constructor can report.
Causes == {"unavailable", "invalid"}

\* The stages of initOtel that can fail, in source order.
InitStages == <<"resource", "conn", "traceExporter", "metricExporter",
                "logExporter", "requestsCounter", "activeRequests",
                "workDuration">>

\* The names the program asks an emitter for: the tracer and the meter of
\* initOtel and the logger of each handler.
TracerName == "my-go-app/main-tracer"
MeterName == "my-go-app/main-meter"
LoggerName(rt) ==
  CASE rt = "/hello" -> "helloHandler"
    [] rt = "/work" -> "workHandler"
    [] rt = "/downstream" -> "downstreamHandler"
EmitterNames == {TracerName, MeterName} \cup {LoggerName(rt) : rt \in Routes}

\* otel.Tracer(name) / otel.Meter(name) / global.Logger(name): one more call
\* for that name.
CreateEmitter(calls, n) == [calls EXCEPT ![n] = @ + 1]

\* The stages of the shutdown closure, in the order the closure calls them.
ShutdownStages == <<"conn", "trace", "metric", "log">>

VARIABLES
  serviceName,   \* package variable serviceName
  otlpEndpoint,  \* package variable otlpEndpoint
  pc,            \* position of main's goroutine
  proc,          \* "running", "exited" (main returned) or "fatal" (log.Fatal)
  ctxDone,       \* the signal.NotifyContext context is cancelled
  initErr,       \* the error initOtel returned, or NoErr
  shutdownFn,    \* initOtel returned the shutdown closure
  resource,      \* the resource descriptor is built
  conn,          \* shared gRPC connection: "none", "open", "closed"
  exporters,     \* exporters built so far
  prov,          \* provider of each signal: "none", "running", "shutdown"
  registry,      \* providers installed in the process-wide registry
  instruments,   \* instruments (and emitters) created so far
  sdErr,         \* result of each shutdown stage: "unset", Nil or an error
  sdTrace,       \* shutdown stages in the order they executed
  sdRet,         \* value the shutdown closure returned: "unset", Nil, error
  flushEnv,      \* per provider: what its Shutdown found (channel, context)
  listener,      \* HTTP listener: "off", "on", "closed"
  deadlineHit,   \* server.Shutdown returned because its 5 s deadline expired
  req,           \* the requests
  spans,         \* the spans of each request
  gauge,         \* http.server.active_requests
  counter,       \* http.server.requests_total per route
  hist,          \* app.work.duration recordings
  buffered,      \* per provider: requests with telemetry waiting in its buffer
  exported,      \* per provider: requests whose telemetry reached the collector
  inflightAtSignal,  \* requests in flight when the interrupt arrived
  uncalledAtSignal,  \* those of them in workHandler before its outbound call
  exports,       \* firings of the export timers so far
  sending,       \* per provider: the batch its exporter is sending
  bindErr,       \* ListenAndServe returned an error, log.Fatalf not yet run
  emitterCalls   \* per emitter name: calls of otel.Tracer / otel.Meter / global.Logger

vars == <<serviceName, otlpEndpoint, pc, proc, ctxDone, initErr, shutdownFn,
          resource, conn, exporters, prov, registry, instruments, sdErr, sdTrace, sdRet,
          flushEnv, listener, deadlineHit, req, spans, gauge, counter, hist,
          buffered, exported, inflightAtSignal, uncalledAtSignal,
          exports, sending, bindErr, emitterCalls>>

coordVars == <<initErr, shutdownFn, resource, conn, exporters, prov, registry,
               instruments>>
sdVars == <<sdErr, sdTrace, sdRet, flushEnv, exported>>
reqVars == <<req, spans, gauge, counter, hist, buffered>>
cfgVars == <<serviceName, otlpEndpoint>>
signalVars == <<inflightAtSignal, uncalledAtSignal>>

\* ------------------------------------------------------------ initial state
FreeReq == [route |-> "none", pc |-> "free", parent |-> NoReq, hdr |-> NoSpan,
            t |-> 0, status |-> 0, res |-> 0, infoLogs |-> 0,
            errorLogs |-> 0, logTrace |-> {}]

NoSpanRec == [state |-> "none", trace |-> NoReq, parent |-> NoSpan,
              startT |-> 0, endT |-> 0, ends |-> 0]

Init ==
  /\ serviceName \in ServiceNames
  /\ otlpEndpoint \in Endpoints
  /\ <<serviceName, otlpEndpoint>> \in Environments
  /\ resource = FALSE
  /\ pc = "initResource"
  /\ proc = "running"
  /\ ctxDone = FALSE
  /\ initErr = NoErr
  /\ shutdownFn = FALSE
  /\ conn = "none"
  /\ exporters = {}
  /\ prov = [p \in Signals |-> "none"]
  /\ registry = {}
  /\ instruments = {}
  /\ sdErr = [s \in {"conn", "trace", "metric", "log"} |-> "unset"]
  /\ sdTrace = <<>>
  /\ sdRet = "unset"
  /\ flushEnv = [p \in Signals |->
                   [ran |-> FALSE, connOpen |-> FALSE, ctxLive |-> FALSE]]
  /\ listener = "off"
  /\ deadlineHit = FALSE
  /\ req = [r \in Req |-> FreeReq]
  /\ spans = [r \in Req |-> [k \in SpanKinds |-> NoSpanRec]]
  /\ gauge = 0
  /\ counter = [rt \in Routes |-> 0]
  /\ hist = {}
  /\ buffered = [p \in Signals |-> {}]
  /\ exported = [p \in Signals |-> {}]
  /\ inflightAtSignal = {}
  /\ uncalledAtSignal = {}
  /\ exports = 0
  /\ sending = [p \in Signals |-> {}]
  /\ bindErr = FALSE
  /\ emitterCalls = [n \in EmitterNames |-> 0]

\* ------------------------------------------------------------------ initOtel
\* Variant of StageMsg: the three instrument stages share one message.
StageMsgShared(stage) ==
  CASE stage = "resource" -> "failed to create resource"
    [] stage = "conn" -> "failed to create gRPC connection to collector"
    [] stage = "traceExporter" -> "failed to create trace exporter"
    [] stage = "metricExporter" -> "failed to create metric exporter"
    [] stage = "logExporter" -> "failed to create log exporter"
    [] OTHER -> "failed to create instrument"

\* fmt.Errorf("failed to create ...: %w", err): the message of each stage.
StageMsg(stage) ==
  CASE stage = "resource" -> "failed to create resource"
    [] stage = "conn" -> "failed to create gRPC connection to collector"
    [] stage = "traceExporter" -> "failed to create trace exporter"
    [] stage = "metricExporter" -> "failed to create metric exporter"
    [] stage = "logExporter" -> "failed to create log exporter"
    [] stage = "requestsCounter" -> "failed to create http_requests_total counter"
    [] stage = "activeRequests" -> "failed to create http_active_requests counter"
    [] stage = "workDuration" -> "failed to create work_duration_seconds histogram"

\* The wrapped error a failing stage returns: message plus the cause (%w).
WrapErr(stage, cause) == [msg |-> StageMsg(stage), cause |-> cause]

\* `return nil, fmt.Errorf(...)`: initOtel stops at the failing stage.
InitFail(stage, cause) ==
  /\ initErr' = WrapErr(stage, cause)
  /\ pc' = "initReturned"
  /\ UNCHANGED shutdownFn

Running == proc = "running"

\* resource.New(ctx, WithAttributes(semconv.ServiceName(serviceName))):
\* the name is stored as an attribute value, whatever it is.
InitResource ==
  /\ Running /\ pc = "initResource"
  /\ \/ \E c \in Causes :
          /\ InitFail("resource", c)
          /\ UNCHANGED <<resource, conn, exporters, prov, registry,
                         instruments>>
     \/ /\ resource' = TRUE
        /\ pc' = "initConn"
        /\ UNCHANGED <<initErr, shutdownFn, conn, exporters, prov, registry,
                       instruments>>
  /\ UNCHANGED <<emitterCalls, exports, sending, cfgVars, proc, ctxDone, sdVars, listener, bindErr, deadlineHit,
                 reqVars, signalVars>>

\* grpc.NewClient(otlpEndpoint, ...): no connection is made here, the target
\* is handed to the library as it is.
InitConn ==
  /\ Running /\ pc = "initConn"
  /\ \/ \E c \in Causes :
          /\ InitFail("conn", c)
          /\ UNCHANGED <<resource, conn, exporters, prov, registry,
                         instruments>>
     \/ /\ conn' = "open"
        /\ pc' = "initTrace"
        /\ UNCHANGED <<initErr, shutdownFn, resource, exporters, prov,
                       registry, instruments>>
  /\ UNCHANGED <<emitterCalls, exports, sending, cfgVars, proc, ctxDone, sdVars, listener, bindErr, deadlineHit,
                 reqVars, signalVars>>

\* One pipeline: build the exporter; on success build the provider and
\* install it in the registry (otel.Set*Provider), then go on to `next`.
InitPipeline(at, stage, p, next) ==
  /\ Running /\ pc = at
  /\ \/ \E c \in Causes :
          /\ InitFail(stage, c)
          /\ UNCHANGED <<resource, conn, exporters, prov, registry,
                         instruments, emitterCalls>>
     \/ /\ exporters' = exporters \cup {p}
        /\ prov' = [prov EXCEPT ![p] = "running"]
        /\ registry' = registry \cup {p}
        /\ pc' = next
        /\ emitterCalls' =
             IF next = "initCounter"
               THEN CreateEmitter(CreateEmitter(emitterCalls, TracerName),
                                  MeterName)
               ELSE emitterCalls
        /\ UNCHANGED <<initErr, shutdownFn, resource, conn, instruments>>
  /\ UNCHANGED <<exports, sending, cfgVars, proc, ctxDone, sdVars, listener, bindErr, deadlineHit,
                 reqVars, signalVars>>

InitTrace == InitPipeline("initTrace", "traceExporter", "trace", "initMetric")
InitMetric == InitPipeline("initMetric", "metricExporter", "metric", "initLog")
InitLog == InitPipeline("initLog", "logExporter", "log", "initCounter")

\* One instrument: meter.Int64Counter / Int64UpDownCounter / Float64Histogram.
InitInstrument(at, stage, next) ==
  /\ Running /\ pc = at
  /\ \/ \E c \in Causes :
          /\ InitFail(stage, c)
          /\ UNCHANGED <<resource, conn, exporters, prov, registry,
                         instruments>>
     \/ /\ instruments' = instruments \cup {stage}
        /\ pc' = next
        /\ shutdownFn' = (next = "initReturned")
        /\ UNCHANGED <<initErr, resource, conn, exporters, prov, registry>>
  /\ UNCHANGED <<emitterCalls, exports, sending, cfgVars, proc, ctxDone, sdVars, listener, bindErr, deadlineHit,
                 reqVars, signalVars>>

InitCounter == InitInstrument("initCounter", "requestsCounter", "initUpDown")
InitUpDown == InitInstrument("initUpDown", "activeRequests", "initHist")
InitHist == InitInstrument("initHist", "workDuration", "initReturned")

\* ---------------------------------------------------------------- requests
InFlight == {r \in Req : req[r].pc \notin {"free", "done", "panicked"}}

\* Request ids are handed out in order.
NextFree(r) == req[r].pc = "free" /\ \A q \in Req : q < r => req[q].pc # "free"

\* tracer.Start(ctx, name): a child of the span ctx carries, or a new root.
StartSpan(tbl, parent, r, t) ==
  [state |-> "open",
   trace |-> IF parent = NoSpan THEN r ELSE tbl[parent[1]][parent[2]].trace,
   parent |-> parent, startT |-> t, endT |-> 0, ends |-> 0]

\* span.End()
EndSpan(s, t) ==
  IF s.state = "none" THEN s
  ELSE [s EXCEPT !.state = "ended", !.ends = @ + 1,
                 !.endT = IF s.state = "open" THEN t ELSE @]

\* A provider takes telemetry only while it is running.
Buffer(b, p, r) ==
  IF prov[p] = "running" THEN [b EXCEPT ![p] = @ \cup {r}] ELSE b

BufferAll(b, r) == Buffer(Buffer(Buffer(b, "trace", r), "metric", r), "log", r)

\* The span the handler's ctx carries. Every handler keeps ctx := r.Context()
\* and discards the context tracer.Start returns (`_, span := ...`), so ctx
\* still carries the otelhttp server span.
HandlerCtxSpan(r) == <<r, "server">>

\* The first time.Sleep of each handler.
FirstSleep(rt) ==
  CASE rt = "/hello" -> {HelloSleepMs}
    [] rt = "/work" -> {WorkSleep1Ms + x : x \in RandIntn(WorkSleep1Rand)}
    [] rt = "/downstream" ->
         {DownstreamSleepMs + x : x \in RandIntn(DownstreamRand)}

\* workHandler's second time.Sleep.
SecondSleep == {WorkSleep2Ms + x : x \in RandIntn(WorkSleep2Rand)}

\* A connection is accepted and an external request for path rt is read.
Arrive(r, rt) ==
  /\ Running /\ listener = "on" /\ NextFree(r)
  /\ req' = [req EXCEPT ![r] = [FreeReq EXCEPT !.route = rt, !.pc = "arrived"]]
  /\ UNCHANGED <<emitterCalls, exports, sending, cfgVars, pc, proc, ctxDone, coordVars, sdVars, listener, bindErr,
                 deadlineHit, spans, gauge, counter, hist, buffered,
                 signalVars>>

\* Variant of EmitLog: the record is emitted under context.Background(), so
\* it carries no trace id.
EmitLogNoCtx(q, r, severity) ==
  [q EXCEPT !.infoLogs = IF severity = "info" THEN @ + 1 ELSE @,
            !.errorLogs = IF severity = "error" THEN @ + 1 ELSE @,
            !.logTrace = @ \cup {NoReq}]

\* emitLog(ctx, logger, severity, body): the record carries ctx's trace id.
EmitLog(q, r, severity) ==
  [q EXCEPT !.infoLogs = IF severity = "info" THEN @ + 1 ELSE @,
            !.errorLogs = IF severity = "error" THEN @ + 1 ELSE @,
            !.logTrace = @ \cup {spans'[r][HandlerCtxSpan(r)[2]].trace}]

\* Variant of Begin: the request counter is added by a wrapper installed on
\* the external routes only, so a request that arrives over the internal hop
\* is not counted.
BeginHopUncounted(r) ==
  /\ Running /\ req[r].pc = "arrived" /\ req[r].route \in Routes
  /\ gauge' = gauge + 1
  /\ emitterCalls' = CreateEmitter(emitterCalls, LoggerName(req[r].route))
  /\ LET withServer == [spans EXCEPT ![r]["server"] =
                           StartSpan(spans, req[r].hdr, r, req[r].t)]
     IN spans' = [withServer EXCEPT ![r]["handler"] =
                    StartSpan(withServer, HandlerCtxSpan(r), r, req[r].t)]
  /\ counter' = [counter EXCEPT ![req[r].route] =
                   IF req[r].parent = NoReq THEN @ + 1 ELSE @]
  /\ \E d \in FirstSleep(req[r].route) :
       req' = [req EXCEPT ![r] =
                 EmitLog([@ EXCEPT !.pc = "sleep1", !.t = @ + d], r, "info")]
  /\ buffered' = Buffer(Buffer(buffered, "metric", r), "log", r)
  /\ UNCHANGED <<exports, sending, cfgVars, pc, proc, ctxDone, coordVars, sdVars, listener, bindErr,
                 deadlineHit, hist, signalVars>>

\* activeRequestsMiddleware's entry (Add +1), otelhttp.NewHandler's server
\* span, and the handler up to its first time.Sleep: global.Logger,
\* tracer.Start, httpRequestsCounter.Add, emitLog.
Begin(r) ==
  /\ Running /\ req[r].pc = "arrived" /\ req[r].route \in Routes
  /\ gauge' = gauge + 1
  /\ emitterCalls' = CreateEmitter(emitterCalls, LoggerName(req[r].route))
  /\ LET withServer == [spans EXCEPT ![r]["server"] =
                           StartSpan(spans, req[r].hdr, r, req[r].t)]
     IN spans' = [withServer EXCEPT ![r]["handler"] =
                    StartSpan(withServer, HandlerCtxSpan(r), r, req[r].t)]
  /\ counter' = [counter EXCEPT ![req[r].route] = @ + 1]
  /\ \E d \in FirstSleep(req[r].route) :
       req' = [req EXCEPT ![r] =
                 EmitLog([@ EXCEPT !.pc = "sleep1", !.t = @ + d], r, "info")]
  /\ buffered' = Buffer(Buffer(buffered, "metric", r), "log", r)
  /\ UNCHANGED <<exports, sending, cfgVars, pc, proc, ctxDone, coordVars, sdVars, listener, bindErr,
                 deadlineHit, hist, signalVars>>

\* A request for a path without a handler enters activeRequestsMiddleware
\* (Add +1) and is passed to the mux. The otelhttp wrappers sit on the three
\* routes, so there is no span.
BeginUnrouted(r) ==
  /\ Running /\ req[r].pc = "arrived" /\ req[r].route \notin Routes
  /\ gauge' = gauge + 1
  /\ req' = [req EXCEPT ![r] = [@ EXCEPT !.pc = "notfound"]]
  /\ buffered' = Buffer(buffered, "metric", r)
  /\ UNCHANGED <<emitterCalls, exports, sending, cfgVars, pc, proc, ctxDone, coordVars, sdVars,
                 listener, bindErr, deadlineHit, spans, counter, hist, signalVars>>

\* The mux answers 404 and the middleware's deferred Add(-1) runs.
FinishUnrouted(r) ==
  /\ Running /\ req[r].pc = "notfound"
  /\ gauge' = gauge - 1
  /\ req' = [req EXCEPT ![r] = [@ EXCEPT !.pc = "done", !.status = 404]]
  /\ buffered' = Buffer(buffered, "metric", r)
  /\ UNCHANGED <<emitterCalls, exports, sending, cfgVars, pc, proc, ctxDone, coordVars, sdVars,
                 listener, bindErr, deadlineHit, spans, counter, hist, signalVars>>

\* The deferred calls that run when a handler returns or panics: span.End()
\* (and res.Body.Close(), which ends the client span), then otelhttp's end of
\* the server span, then the middleware's deferred Add(-1).
Unwind(r) ==
  /\ spans' = [spans EXCEPT
       ![r] = [k \in SpanKinds |-> EndSpan(spans[r][k], req[r].t)]]
  /\ gauge' = gauge - 1

\* helloHandler / downstreamHandler after the sleep: event, response, return.
SimpleFinish(r) ==
  /\ Running /\ req[r].pc = "sleep1" /\ req[r].route \in {"/hello", "/downstream"}
  /\ Unwind(r)
  /\ req' = [req EXCEPT ![r] = [@ EXCEPT !.pc = "done", !.status = 200]]
  /\ buffered' = Buffer(Buffer(buffered, "trace", r), "metric", r)
  /\ UNCHANGED <<emitterCalls, exports, sending, cfgVars, pc, proc, ctxDone, coordVars, sdVars, listener, bindErr,
                 deadlineHit, counter, hist, signalVars>>

\* Variant of WorkErrorPath: span.End() is called at the end of the handler
\* instead of being deferred, so the early return leaves the span open.
WorkErrorPathLeak(tbl, rec, r, t) ==
  /\ spans' = [tbl EXCEPT ![r] =
       [k \in SpanKinds |->
          IF k = "handler" THEN tbl[r][k] ELSE EndSpan(tbl[r][k], t)]]
  /\ gauge' = gauge - 1
  /\ req' = [req EXCEPT ![r] =
               EmitLog([rec EXCEPT !.pc = "done", !.status = 500, !.t = t],
                       r, "error")]
  /\ buffered' = BufferAll(buffered, r)
  /\ UNCHANGED <<counter, hist>>

\* Variant of WorkErrorPath: the histogram is recorded by a deferred call at
\* the top of workHandler, so the early return records it too.
WorkErrorPathRecords(tbl, rec, r, t) ==
  /\ spans' = [tbl EXCEPT ![r] = [k \in SpanKinds |-> EndSpan(tbl[r][k], t)]]
  /\ gauge' = gauge - 1
  /\ req' = [req EXCEPT ![r] =
               EmitLog([rec EXCEPT !.pc = "done", !.status = 500, !.t = t],
                       r, "error")]
  /\ buffered' = BufferAll(buffered, r)
  /\ hist' = hist \cup {[req |-> r, success |-> TRUE,
                         duration |-> Seconds(t - tbl[r]["handler"].startT)]}
  /\ UNCHANGED counter

\* workHandler's error path: http.Error(w, ..., 500), emitLog(error), return;
\* the deferred span.End() runs on this return too. tbl and rec are the span
\* table and the request as the handler left them, t is the time of return.
WorkErrorPath(tbl, rec, r, t) ==
  /\ spans' = [tbl EXCEPT ![r] = [k \in SpanKinds |-> EndSpan(tbl[r][k], t)]]
  /\ gauge' = gauge - 1
  /\ req' = [req EXCEPT ![r] =
               EmitLog([rec EXCEPT !.pc = "done", !.status = 500, !.t = t],
                       r, "error")]
  /\ buffered' = BufferAll(buffered, r)
  /\ UNCHANGED <<counter, hist>>

\* workHandler after its first sleep: event, emitLog, the request built from
\* ctx, and the start of downstreamAPIHTTPClient.Do: the instrumented
\* transport starts its client span (a child of the span in ctx) and dials.
WorkCall(r) ==
  /\ Running /\ req[r].pc = "sleep1" /\ req[r].route = "/work"
  /\ spans' = [spans EXCEPT ![r] = [@ EXCEPT
                 !["client"] =
                    StartSpan(spans, HandlerCtxSpan(r), r, req[r].t)]]
  /\ req' = [req EXCEPT ![r] = EmitLog([@ EXCEPT !.pc = "calling"], r, "info")]
  /\ buffered' = Buffer(buffered, "log", r)
  /\ UNCHANGED <<emitterCalls, exports, sending, cfgVars, pc, proc, ctxDone, coordVars, sdVars,
                 listener, bindErr, deadlineHit, gauge, counter, hist, signalVars>>

\* The /downstream request a /work request's outbound call has become.
Hops(r) == {d \in Req : req[d].parent = r}

\* Variant of HopArrive: the handler reaches /downstream without a new
\* connection to the listener (an in-process call of the mux).
HopArriveInProcess(r, d) ==
  /\ Running /\ req[r].pc = "calling" /\ Hops(r) = {}
  /\ NextFree(d)
  /\ req' = [req EXCEPT ![d] = [FreeReq EXCEPT !.route = "/downstream",
                                               !.pc = "arrived",
                                               !.parent = r,
                                               !.t = req[r].t]]
  /\ UNCHANGED <<emitterCalls, exports, sending, cfgVars, pc, proc, ctxDone, coordVars, sdVars,
                 listener, bindErr, deadlineHit, spans, gauge, counter, hist, buffered,
                 signalVars>>

\* The outbound call reaches the server: the listener accepts the connection
\* and a request for /downstream is read. No propagator is registered
\* (otel.SetTextMapPropagator is never called), so the transport injects no
\* trace header and the request carries no trace context (hdr = NoSpan).
HopArrive(r, d) ==
  /\ Running /\ req[r].pc = "calling" /\ Hops(r) = {}
  /\ listener = "on" /\ NextFree(d)
  /\ req' = [req EXCEPT ![d] = [FreeReq EXCEPT !.route = "/downstream",
                                               !.pc = "arrived",
                                               !.parent = r,
                                               !.t = req[r].t]]
  /\ UNCHANGED <<emitterCalls, exports, sending, cfgVars, pc, proc, ctxDone, coordVars, sdVars,
                 listener, bindErr, deadlineHit, spans, gauge, counter, hist, buffered,
                 signalVars>>

\* Variant of DoFailed: workHandler treats a response with a 5xx status code
\* like a failed call.
DoFailedOnStatus(err, code) == err \/ code >= 500

\* `if err != nil` after downstreamAPIHTTPClient.Do: the handler looks at the
\* error only, never at res.StatusCode.
DoFailed(err, code) == err

\* workHandler after `res, err := downstreamAPIHTTPClient.Do(req)` returned
\* at time t with an error (err, code 0) or with a response of status `code`:
\* the error path, or the status-code attribute and the second sleep.
AfterDo(r, err, code, t) ==
  IF DoFailed(err, code)
    THEN WorkErrorPath(spans, [req[r] EXCEPT !.res = code], r, t)
    ELSE /\ \E w \in SecondSleep :
              req' = [req EXCEPT ![r] =
                        [@ EXCEPT !.pc = "sleep2", !.res = code, !.t = t + w]]
         /\ UNCHANGED <<spans, gauge, counter, hist, buffered>>

\* Do returns the response once the /downstream request is answered.
WorkCallReturn(r) ==
  /\ Running /\ req[r].pc = "calling"
  /\ \E d \in Hops(r) :
       /\ req[d].pc = "done"
       /\ AfterDo(r, FALSE, req[d].status, req[d].t)
  /\ UNCHANGED <<emitterCalls, exports, sending, cfgVars, pc, proc, ctxDone, coordVars, sdVars,
                 listener, bindErr, deadlineHit, signalVars>>

\* The times at which a failing Do can return: any time from the call to
\* the time the /downstream request has reached. The model draws the times
\* within MaxFailSkew of either end.
FailTimes(r) ==
  LET lo == req[r].t
      hi == IF Hops(r) = {} THEN lo ELSE req[CHOOSE d \in Hops(r) : TRUE].t
  IN {t \in lo .. hi : t - lo <= MaxFailSkew \/ hi - t <= MaxFailSkew}

\* Do returns an error: the dial is refused, the connection is dropped (the
\* /downstream handler panicked) or reset, or the context of the /work
\* request is cancelled because its client went away. This can happen while
\* the /downstream request is still being handled.
WorkCallFail(r) ==
  /\ Running /\ req[r].pc = "calling"
  /\ \A d \in Hops(r) : req[d].pc # "done"
  /\ \E t \in FailTimes(r) : AfterDo(r, TRUE, 0, t)
  /\ UNCHANGED <<emitterCalls, exports, sending, cfgVars, pc, proc, ctxDone, coordVars, sdVars,
                 listener, bindErr, deadlineHit, signalVars>>

\* The peer behind http://localhost:8080/downstream answers the outbound
\* call with status `code`: the response workHandler is handed when it runs
\* against a server other than this process's own downstreamHandler.
PeerAnswers(r, code) ==
  /\ Running /\ req[r].pc = "calling" /\ Hops(r) = {}
  /\ AfterDo(r, FALSE, code, req[r].t)
  /\ UNCHANGED <<emitterCalls, exports, sending, cfgVars, pc, proc, ctxDone, coordVars, sdVars,
                 listener, bindErr, deadlineHit, signalVars>>

\* Variant of WorkFinish: the duration is recorded in whole seconds
\* (int64 of Seconds()), which drops the fraction.
WorkFinishWholeSeconds(r) ==
  /\ Running /\ req[r].pc = "sleep2"
  /\ Unwind(r)
  /\ hist' = hist \cup {[req |-> r, success |-> TRUE,
                         duration |->
                           [s |-> (req[r].t - spans[r]["handler"].startT)
                                    \div 1000,
                            ms |-> 0]]}
  /\ req' = [req EXCEPT ![r] =
               EmitLog([@ EXCEPT !.pc = "done", !.status = 200], r, "info")]
  /\ buffered' = BufferAll(buffered, r)
  /\ UNCHANGED <<emitterCalls, exports, sending, cfgVars, pc, proc, ctxDone, coordVars, sdVars, listener, bindErr,
                 deadlineHit, counter, signalVars>>

\* workHandler after its second sleep: event, histogram (the time since
\* startTime, which the model takes at the start of the handler's span),
\* emitLog, response.
WorkFinish(r) ==
  /\ Running /\ req[r].pc = "sleep2"
  /\ Unwind(r)
  /\ hist' = hist \cup {[req |-> r, success |-> TRUE,
                         duration |->
                           Seconds(req[r].t - spans[r]["handler"].startT)]}
  /\ req' = [req EXCEPT ![r] =
               EmitLog([@ EXCEPT !.pc = "done", !.status = 200], r, "info")]
  /\ buffered' = BufferAll(buffered, r)
  /\ UNCHANGED <<emitterCalls, exports, sending, cfgVars, pc, proc, ctxDone, coordVars, sdVars, listener, bindErr,
                 deadlineHit, counter, signalVars>>

\* Variant of Panic: the middleware decrements after next.ServeHTTP returns
\* instead of deferring the decrement, so a panic skips it.
PanicNoDefer(r) ==
  /\ Running /\ req[r].pc \in {"sleep1", "sleep2"}
  /\ spans' = [spans EXCEPT
       ![r] = [k \in SpanKinds |-> EndSpan(spans[r][k], req[r].t)]]
  /\ req' = [req EXCEPT ![r] = [@ EXCEPT !.pc = "panicked"]]
  /\ buffered' = Buffer(Buffer(buffered, "trace", r), "metric", r)
  /\ UNCHANGED <<emitterCalls, exports, sending, cfgVars, pc, proc, ctxDone, coordVars, sdVars, listener, bindErr,
                 deadlineHit, gauge, counter, hist, signalVars>>

\* A handler panics while it runs its own code: the deferred calls run, no
\* response is written and net/http drops the connection.
Panic(r) ==
  /\ Running /\ req[r].pc \in {"sleep1", "sleep2"}
  /\ Unwind(r)
  /\ req' = [req EXCEPT ![r] = [@ EXCEPT !.pc = "panicked"]]
  /\ buffered' = Buffer(Buffer(buffered, "trace", r), "metric", r)
  /\ UNCHANGED <<emitterCalls, exports, sending, cfgVars, pc, proc, ctxDone, coordVars, sdVars, listener, bindErr,
                 deadlineHit, counter, hist, signalVars>>

\* ------------------------------------------------------- background export
\* What of a batch can reach the collector when an exporter sends it.
\* grpc.NewClient connects lazily and takes otlpEndpoint as it is, so an open
\* channel says nothing about the collector: the send fails on a closed
\* channel, under a cancelled context and with an empty target, and
\* otherwise it succeeds or fails (collector not reachable, channel closed
\* while the call is under way). A batch that is not sent is dropped.
Delivered(canSend, batch) ==
  IF canSend /\ otlpEndpoint # "" THEN {batch, {}} ELSE {{}}

\* What provider p still holds once a batch has left for the exporter. The
\* batch processors of spans and log records take the batch off their queue.
\* The periodic reader collects cumulative sums: the measurements stay with
\* the meter provider and every collection reads them again.
Kept(p, held, batch) == IF p = "metric" THEN held ELSE held \ batch

\* A timer of the batch span processor, the periodic metric reader or the
\* batch log processor fires: the processor takes what provider p holds as
\* one batch and calls its exporter, which starts the RPC.
ExportTake(p) ==
  /\ Running /\ prov[p] = "running"
  /\ buffered[p] # {} /\ sending[p] = {}
  /\ exports < MaxExports
  /\ exports' = exports + 1
  /\ sending' = [sending EXCEPT ![p] = buffered[p]]
  /\ buffered' = [buffered EXCEPT ![p] = Kept(p, @, buffered[p])]
  /\ UNCHANGED <<emitterCalls, bindErr, cfgVars, pc, proc, ctxDone, coordVars, sdVars,
                 listener, deadlineHit, req, spans, gauge, counter, hist,
                 signalVars>>

\* The exporter's RPC returns: the batch has reached the collector or is
\* dropped. conn.Close() of the shutdown closure can have run since the
\* batch was taken.
ExportDone(p) ==
  /\ Running /\ sending[p] # {}
  /\ \E sent \in Delivered(conn = "open", sending[p]) :
       exported' = [exported EXCEPT ![p] = @ \cup sent]
  /\ sending' = [sending EXCEPT ![p] = {}]
  /\ UNCHANGED <<emitterCalls, exports, bindErr, cfgVars, pc, proc, ctxDone, coordVars, sdErr,
                 sdTrace, sdRet, flushEnv, listener, deadlineHit, reqVars,
                 signalVars>>

\* --------------------------------------------------------------------- main
\* The interrupt arrives: the signal.NotifyContext context is cancelled.
Signal ==
  /\ Running /\ ~ctxDone
  /\ ctxDone' = TRUE
  /\ inflightAtSignal' = InFlight
  /\ uncalledAtSignal' = {r \in InFlight : /\ req[r].route = "/work"
                                         /\ req[r].pc \in {"arrived", "sleep1"}}
  /\ UNCHANGED <<emitterCalls, exports, sending, cfgVars, pc, proc, coordVars, sdVars, listener, bindErr, deadlineHit,
                 reqVars>>

\* main after initOtel returned: log.Fatal(err) on an error; otherwise the
\* shutdown call is deferred, the mux and server are built, the
\* ListenAndServe goroutine is started and main waits on <-ctx.Done().
MainAfterInit ==
  /\ Running /\ pc = "initReturned"
  /\ IF initErr # NoErr
       THEN proc' = "fatal" /\ UNCHANGED pc
       ELSE pc' = "waiting" /\ UNCHANGED proc
  /\ UNCHANGED <<emitterCalls, exports, sending, cfgVars, ctxDone, coordVars, sdVars, listener, bindErr, deadlineHit,
                 reqVars, signalVars>>

\* The goroutine's server.ListenAndServe() binds :8080 and serves.
ListenOK ==
  /\ Running /\ pc = "waiting" /\ listener = "off" /\ ~bindErr
  /\ listener' = "on"
  /\ UNCHANGED <<emitterCalls, exports, sending, bindErr, cfgVars, pc, proc, ctxDone, coordVars,
                 sdVars, deadlineHit, reqVars, signalVars>>

\* server.ListenAndServe() returns an error other than ErrServerClosed (the
\* port cannot be bound). The goroutine has not yet reached log.Fatalf.
ListenErr ==
  /\ Running /\ pc = "waiting" /\ listener = "off" /\ ~bindErr
  /\ bindErr' = TRUE
  /\ UNCHANGED <<emitterCalls, exports, sending, cfgVars, pc, proc, ctxDone, coordVars,
                 sdVars, listener, deadlineHit, reqVars, signalVars>>

\* log.Fatalf in the goroutine ends the process. The goroutine is not
\* synchronised with main, which can meanwhile have gone on to
\* server.Shutdown or into the shutdown closure.
ListenFail ==
  /\ Running /\ bindErr
  /\ proc' = "fatal"
  /\ UNCHANGED <<emitterCalls, exports, sending, bindErr, cfgVars, pc, ctxDone, coordVars,
                 sdVars, listener, deadlineHit, reqVars, signalVars>>

\* Variant of DrainStart: main calls server.Shutdown without waiting on
\* <-ctx.Done().
DrainStartNoWait ==
  /\ Running /\ pc = "waiting"
  /\ listener' = "closed"
  /\ pc' = "draining"
  /\ UNCHANGED <<emitterCalls, exports, sending, bindErr, cfgVars, proc, ctxDone, coordVars, sdVars, deadlineHit,
                 reqVars, signalVars>>

\* <-ctx.Done() returns; server.Shutdown(shutdownCtx) closes the listener
\* and starts waiting for the requests in flight.
DrainStart ==
  /\ Running /\ pc = "waiting" /\ ctxDone
  /\ listener' = "closed"
  /\ pc' = "draining"
  /\ UNCHANGED <<emitterCalls, exports, sending, bindErr, cfgVars, proc, ctxDone, coordVars, sdVars, deadlineHit,
                 reqVars, signalVars>>

\* Variant of DrainDone: main calls server.Close(), which returns without
\* waiting for the requests in flight.
DrainDoneNoWait ==
  /\ Running /\ pc = "draining"
  /\ pc' = "shutdown"
  /\ UNCHANGED <<emitterCalls, exports, sending, cfgVars, proc, ctxDone, coordVars, sdVars,
                 listener, bindErr, deadlineHit, reqVars, signalVars>>

\* server.Shutdown returns nil: no request is in flight any more. main
\* returns and its deferred calls start: cancel(), then the shutdown closure.
DrainDone ==
  /\ Running /\ pc = "draining" /\ InFlight = {}
  /\ pc' = "shutdown"
  /\ UNCHANGED <<emitterCalls, exports, sending, cfgVars, proc, ctxDone, coordVars, sdVars, listener, bindErr,
                 deadlineHit, reqVars, signalVars>>

\* server.Shutdown returns the deadline error with requests still in
\* flight: log.Fatalf ends the process (os.Exit runs no deferred call).
DrainDeadline ==
  /\ Running /\ pc = "draining" /\ InFlight # {}
  /\ deadlineHit' = TRUE
  /\ proc' = "fatal"
  /\ UNCHANGED <<emitterCalls, exports, sending, cfgVars, pc, ctxDone, coordVars, sdVars, listener, bindErr, reqVars,
                 signalVars>>

\* ------------------------------------------------------ the shutdown closure
\* Variant of ShutdownCtxLive: main hands the closure a context of its own
\* with a fresh deadline, which is live when the closure runs.
ShutdownCtxLiveFresh == TRUE

\* The context main hands to the closure: `shutdown(ctx)`, the signal context.
ShutdownCtxLive == ~ctxDone

\* The error a failing stage reports.
StageErr(s) == "err:" \o s

\* Variant of ShutdownCallsDone: the closure returns at the first failure.
ShutdownCallsDoneAbort(trace, errs) ==
  \/ Len(trace) = Len(ShutdownStages)
  \/ \E i \in 1 .. Len(trace) : errs[trace[i]] # Nil

\* The closure calls its four stages one after the other and looks at the
\* errors only after the last one.
ShutdownCallsDone(trace, errs) == Len(trace) = Len(ShutdownStages)

\* The stage the closure calls next.
ShutdownNextStage(trace) == ShutdownStages[Len(trace) + 1]

\* Variant of ShutdownResult: the if-chain tests the errors in reverse order.
ShutdownResultReversed(errs) ==
  IF errs["log"] # Nil THEN errs["log"]
  ELSE IF errs["metric"] # Nil THEN errs["metric"]
  ELSE IF errs["trace"] # Nil THEN errs["trace"]
  ELSE IF errs["conn"] # Nil THEN errs["conn"]
  ELSE Nil

\* The if-chain that picks the closure's return value.
ShutdownResult(errs) ==
  IF errs["conn"] # Nil THEN errs["conn"]
  ELSE IF errs["trace"] # Nil THEN errs["trace"]
  ELSE IF errs["metric"] # Nil THEN errs["metric"]
  ELSE IF errs["log"] # Nil THEN errs["log"]
  ELSE Nil

\* One call of the closure: conn.Close() or a provider's Shutdown(ctx). A
\* provider's Shutdown flushes its buffer through its exporter, which can
\* send only on an open channel and under a live context (Delivered).
ShutdownStage ==
  /\ Running /\ pc = "shutdown" /\ ~ShutdownCallsDone(sdTrace, sdErr)
  /\ LET s == ShutdownNextStage(sdTrace) IN
       /\ \E e \in {Nil, StageErr(s)} : sdErr' = [sdErr EXCEPT ![s] = e]
       /\ sdTrace' = Append(sdTrace, s)
       /\ IF s = "conn"
            THEN /\ conn' = "closed"
                 /\ UNCHANGED <<prov, flushEnv, exported, buffered>>
            ELSE /\ prov' = [prov EXCEPT ![s] = "shutdown"]
                 /\ flushEnv' = [flushEnv EXCEPT ![s] =
                       [ran |-> TRUE, connOpen |-> conn = "open",
                        ctxLive |-> ShutdownCtxLive]]
                 /\ \E sent \in Delivered(conn = "open" /\ ShutdownCtxLive,
                                          buffered[s]) :
                      exported' = [exported EXCEPT ![s] = @ \cup sent]
                 /\ buffered' = [buffered EXCEPT ![s] = {}]
                 /\ UNCHANGED conn
  /\ UNCHANGED <<emitterCalls, exports, sending, cfgVars, pc, proc, ctxDone, initErr, shutdownFn, resource,
                 exporters, registry, instruments, sdRet, listener, bindErr, deadlineHit, req,
                 spans, gauge, counter, hist, signalVars>>

\* The closure returns; main's deferred function calls log.Fatal on an error,
\* otherwise stop() runs and main returns.
ShutdownReturn ==
  /\ Running /\ pc = "shutdown" /\ ShutdownCallsDone(sdTrace, sdErr)
  /\ sdRet' = ShutdownResult(sdErr)
  /\ proc' = IF ShutdownResult(sdErr) # Nil THEN "fatal" ELSE "exited"
  /\ pc' = "returned"
  /\ UNCHANGED <<emitterCalls, exports, sending, cfgVars, ctxDone, coordVars, sdErr, sdTrace, flushEnv,
                 exported, listener, bindErr, deadlineHit, reqVars, signalVars>>

\* ------------------------------------------------------------ specification
Next ==
  \/ InitResource \/ InitConn \/ InitTrace \/ InitMetric \/ InitLog
  \/ InitCounter \/ InitUpDown \/ InitHist
  \/ MainAfterInit \/ Signal \/ ListenOK \/ ListenErr \/ ListenFail
  \/ DrainStart \/ DrainDone \/ DrainDeadline
  \/ ShutdownStage \/ ShutdownReturn
  \/ \E r \in Req : \E rt \in Paths : Arrive(r, rt)
  \/ \E r \in Req : Begin(r)
  \/ \E r \in Req : BeginUnrouted(r)
  \/ \E r \in Req : FinishUnrouted(r)
  \/ \E r \in Req : SimpleFinish(r)
  \/ \E r \in Req : WorkCall(r)
  \/ \E r \in Req : \E d \in Req : HopArrive(r, d)
  \/ \E r \in Req : WorkCallReturn(r)
  \/ \E r \in Req : WorkCallFail(r)
  \/ \E r \in Req : WorkFinish(r)
  \/ \E r \in Req : Panic(r)
  \/ \E p \in Signals : ExportTake(p)
  \/ \E p \in Signals : ExportDone(p)

Spec == Init /\ [][Next]_vars

\* workHandler as a function of what its outbound call returns: the process
\* as above, and an outbound call whose response carries any status code.
NextAnyStatus ==
  \/ Next
  \/ \E r \in Req : \E code \in StatusCodes : PeerAnswers(r, code)

SpecAnyStatus == Init /\ [][NextAnyStatus]_vars

\* =================================================================== claims
Exited == proc # "running"
ChannelClosed == conn = "closed"
AllProvidersShutDown == \A p \in Signals : prov[p] = "shutdown"
ShutdownReturned == sdRet # "unset"

\* C1: in every execution of the shutdown closure the shared channel is
\* closed only after the trace, metric and log providers have all finished
\* their Shutdown call (the channel close is the last stage).
C1_ChannelClosedLast == ChannelClosed => AllProvidersShutDown

\* C2: a request in flight when the termination signal arrives, and finished
\* before the drain deadline, has its telemetry flushed by every provider
\* over an open channel and under a live context, so that it is exported.
C2_InFlightTelemetryExported ==
  \A r \in inflightAtSignal : \A p \in Signals :
    (req[r].pc = "done" /\ flushEnv[p].ran) =>
      /\ flushEnv[p].connOpen
      /\ flushEnv[p].ctxLive
      /\ r \in exported[p]

\* C3: the shutdown closure attempts all four stages in every execution,
\* whatever stages fail: when it returns, the channel close and the three
\* provider shutdowns have each run exactly once.
C3_AllStagesAttempted ==
  ShutdownReturned =>
    /\ Len(sdTrace) = 4
    /\ {sdTrace[i] : i \in 1 .. Len(sdTrace)} = {"conn", "trace", "metric", "log"}
    /\ \A s \in {"conn", "trace", "metric", "log"} : sdErr[s] # "unset"
    /\ ChannelClosed /\ AllProvidersShutDown

\* A stage failed and a later stage failed too, and the closure returned.
C3_Witness ==
  /\ ShutdownReturned
  /\ sdErr["conn"] # Nil /\ sdErr["metric"] # Nil /\ sdErr["log"] = Nil
  /\ prov["log"] = "shutdown"

\* The error of the earliest-executed stage that failed, Nil when none did.
FirstFailure ==
  LET failed == {i \in 1 .. Len(sdTrace) : sdErr[sdTrace[i]] # Nil}
  IN IF failed = {} THEN Nil
     ELSE sdErr[sdTrace[CHOOSE i \in failed : \A j \in failed : i <= j]]

\* C4: the shutdown closure returns nil exactly when all four stages
\* succeeded, and otherwise the error of the earliest-executed failed stage.
C4_FirstErrorReturned ==
  ShutdownReturned =>
    /\ sdRet = FirstFailure
    /\ (sdRet = Nil) <=> (\A s \in {"conn", "trace", "metric", "log"} : sdErr[s] = Nil)

\* Two stages failed and the closure returned the error of the earlier one.
C4_Witness ==
  /\ ShutdownReturned
  /\ sdErr["conn"] = Nil /\ sdErr["trace"] # Nil /\ sdErr["log"] # Nil
  /\ sdRet = sdErr["trace"]

\* C5: when the drain deadline expires with requests still in flight, the
\* coordinator still shuts the three providers down and closes the channel
\* before the process exits.
C5_DeadlineStillShutsDown ==
  (deadlineHit /\ Exited) => (AllProvidersShutDown /\ ChannelClosed)

\* The first initOtel stage, in source order, that has not completed.
StageCompleted(stage) ==
  CASE stage = "resource" -> resource
    [] stage = "conn" -> conn # "none"
    [] stage = "traceExporter" -> "trace" \in exporters
    [] stage = "metricExporter" -> "metric" \in exporters
    [] stage = "logExporter" -> "log" \in exporters
    [] OTHER -> stage \in instruments

FirstIncompleteStage ==
  LET open == {i \in 1 .. Len(InitStages) : ~StageCompleted(InitStages[i])}
  IN InitStages[CHOOSE i \in open : \A j \in open : i <= j]

NoRequestServed ==
  /\ listener = "off"
  /\ \A r \in Req : req[r].pc = "free"
  /\ gauge = 0

\* C6: when an initialization stage fails, initOtel returns an error that
\* wraps the cause and carries a message no other stage uses, returns no
\* shutdown function, and the listener is never started: no request is
\* served.
C6_InitFailureAborts ==
  initErr # NoErr =>
    /\ initErr.msg = StageMsg(FirstIncompleteStage)
    /\ \A i \in 1 .. Len(InitStages) :
         InitStages[i] # FirstIncompleteStage => StageMsg(InitStages[i]) # initErr.msg
    /\ initErr.cause \in Causes
    /\ ~shutdownFn
    /\ NoRequestServed

\* An instrument creation failed after the three pipelines were installed,
\* and main ended the process.
C6_Witness ==
  /\ initErr # NoErr /\ proc = "fatal"
  /\ registry = Signals
  /\ "requestsCounter" \in instruments /\ "activeRequests" \notin instruments

\* C7: with the service name or the collector endpoint empty at startup,
\* initialization fails and the service does not start.
C7_EmptyConfigRejected ==
  (serviceName = "" \/ otlpEndpoint = "") => (~shutdownFn /\ listener = "off")

\* The requests that entered the middleware, and those that left it.
Entered == {r \in Req : req[r].pc \notin {"free", "arrived"}}
Left == {r \in Req : req[r].pc \in {"done", "panicked"}}

\* C8: the active-requests gauge always equals the number of requests that
\* entered the middleware minus those that left it, is never negative, and
\* is 0 when no request is inside, also after error paths and panics.
C8_GaugeIsInFlight ==
  /\ gauge = Cardinality(Entered) - Cardinality(Left)
  /\ gauge >= 0
  /\ (Entered \ Left = {}) => gauge = 0

\* The internal /downstream hop panicked, its /work caller took the error
\* path, and the gauge is back at 0.
C8_Witness ==
  \E d \in Req :
    /\ req[d].pc = "panicked" /\ req[d].parent # NoReq
    /\ req[req[d].parent].pc = "done" /\ req[req[d].parent].status = 500
    /\ gauge = 0

\* The ancestors of a span, following parent links.
RECURSIVE Ancestors(_, _)
Ancestors(s, fuel) ==
  IF s = NoSpan \/ fuel = 0 THEN {}
  ELSE LET p == spans[s[1]][s[2]].parent
       IN IF p = NoSpan THEN {} ELSE {p} \cup Ancestors(p, fuel - 1)

SpanDepth == Cardinality(SpanKinds) * MaxReq

\* C9: every span recorded for the /downstream hop of a /work request has
\* the trace id of the span workHandler started and is a descendant of it.
C9_DownstreamUnderWorkSpan ==
  \A d \in Req : \A k \in {"server", "handler"} :
    (req[d].parent # NoReq /\ spans[d][k].state # "none") =>
      /\ spans[d][k].trace = spans[req[d].parent]["handler"].trace
      /\ <<req[d].parent, "handler">> \in Ancestors(<<d, k>>, SpanDepth)

\* C10: every span a handler started is ended exactly once when the handler
\* is left, on every exit path, never twice, and not before it started.
C10_HandlerSpanEndedOnce ==
  \A r \in Req :
    /\ spans[r]["handler"].ends <= 1
    /\ (r \in Left /\ req[r].route \in Routes) =>
         /\ spans[r]["handler"].state = "ended"
         /\ spans[r]["handler"].ends = 1
    /\ spans[r]["handler"].state = "ended" =>
         spans[r]["handler"].endT >= spans[r]["handler"].startT

\* A /work request left through the early return after its downstream call
\* failed, with its span ended once.
C10_Witness ==
  \E r \in Req :
    /\ req[r].route = "/work" /\ req[r].pc = "done" /\ req[r].status = 500
    /\ spans[r]["handler"].ends = 1
    /\ spans[r]["handler"].endT > spans[r]["handler"].startT

\* The requests for route rt that a handler took up and left.
Handled(rt) == {r \in Left : req[r].route = rt}

\* C11: for each route, once no request to it is in flight, the request
\* counter of that route equals the number of requests handled for it, on
\* success, error and panic paths alike; the internal hop of a /work request
\* is a handled /downstream request and is counted in the /downstream series.
C11_CounterCountsHandled ==
  /\ \A rt \in Routes :
       ({r \in InFlight : req[r].route = rt} = {}) =>
         counter[rt] = Cardinality(Handled(rt))
  /\ \A d \in Left : req[d].parent # NoReq => req[d].route = "/downstream"

\* A /work request failed after its hop panicked; both are counted, each in
\* its own series, and nothing is in flight.
C11_Witness ==
  /\ InFlight = {}
  /\ \E r \in Req : \E d \in Req :
       /\ req[r].route = "/work" /\ req[r].status = 500 /\ req[r].pc = "done"
       /\ req[d].parent = r /\ req[d].pc = "panicked"
  /\ counter["/work"] = 1 /\ counter["/downstream"] = 1

\* The step in which downstreamAPIHTTPClient.Do returns an error to request
\* r: the handler leaves from the call, not after its second sleep.
DownstreamCallFails(r) ==
  /\ req[r].route = "/work"
  /\ req[r].pc = "calling"
  /\ req'[r].pc = "done"

\* C12: when the outbound call from /work to /downstream fails, the /work
\* request gets a 5xx response, exactly one error-severity log record is
\* emitted for it, no histogram entry with success=true is recorded for it,
\* and the process keeps running with its listener and with every other
\* request untouched.
C12_DownstreamFailureHandled ==
  [][\A r \in Req :
       DownstreamCallFails(r) =>
         /\ req'[r].status >= 500 /\ req'[r].status <= 599
         /\ req[r].errorLogs = 0 /\ req'[r].errorLogs = 1
         /\ \A h \in hist' : h.req = r => ~h.success
         /\ proc' = proc /\ pc' = pc /\ listener' = listener
         /\ \A q \in Req \ {r} : req'[q] = req[q]]_vars

\* A /work request failed with a 500 and one error record, and a later
\* request was served with a 200 by the same process.
C12_Witness ==
  \E r \in Req : \E q \in Req :
    /\ req[r].route = "/work" /\ req[r].pc = "done" /\ req[r].status = 500
    /\ req[r].errorLogs = 1 /\ \A h \in hist : h.req # r
    /\ q > r /\ req[q].parent = NoReq
    /\ req[q].pc = "done" /\ req[q].status = 200

\* C13: every /work request that ran to the end of its handler, whether the
\* downstream call succeeded or failed, has recorded its duration in the
\* histogram with a success attribute that matches the outcome (the record
\* of a failure is completed, not omitted).
C13_OutcomeMeasured ==
  \A r \in Req :
    (req[r].route = "/work" /\ req[r].pc = "done") =>
      \E h \in hist : h.req = r /\ (h.success <=> req[r].status = 200)

\* The lifecycle state main is in, numbered in the order of the state
\* machine: 0 Uninitialized (initOtel not entered), 1 Initializing,
\* 2 Running (main waits on <-ctx.Done()), 3 Draining (server.Shutdown),
\* 4 ShutDown (the deferred closure runs or has returned).
Phase ==
  CASE pc = "initResource" -> 0
    [] pc \in {"initConn", "initTrace", "initMetric", "initLog", "initCounter",
               "initUpDown", "initHist", "initReturned"} -> 1
    [] pc = "waiting" -> 2
    [] pc = "draining" -> 3
    [] pc \in {"shutdown", "returned"} -> 4

InitFullySucceeded ==
  /\ initErr = NoErr /\ shutdownFn
  /\ resource /\ exporters = Signals /\ registry = Signals
  /\ instruments = {"requestsCounter", "activeRequests", "workDuration"}

ShutdownBegun ==
  \/ sdTrace # <<>> \/ ChannelClosed
  \/ \E p \in Signals : prov[p] = "shutdown"

\* C15: the lifecycle only moves forward through Uninitialized,
\* Initializing, Running, Draining, ShutDown, one state at a time and never
\* back; the listener is on only after initialization fully succeeded,
\* Draining is entered only after the termination signal, and the provider
\* shutdowns and the channel close begin only after the server's drain has
\* returned with no request in flight.
C15_LifecycleForward ==
  /\ [][Phase' \in {Phase, Phase + 1}]_vars
  /\ [](listener # "off" => (Phase >= 2 /\ InitFullySucceeded))
  /\ [](Phase >= 3 => (ctxDone /\ listener = "closed"))
  /\ [](ShutdownBegun => (Phase = 4 /\ InFlight = {} /\ ~deadlineHit))

\* The process served a request, was signalled, drained and finished its
\* shutdown closure.
C15_Witness ==
  /\ Phase = 4 /\ pc = "returned" /\ ShutdownBegun
  /\ \E r \in Req : req[r].pc = "done"
  /\ inflightAtSignal # {}

\* C16: every emitter (tracer, meter, logger) and every instrument is
\* created exactly once per name during initialization and none is created
\* while a request is handled: once initialization is over, each emitter
\* name has been asked for exactly once, whatever requests were served.
C16_EmittersCreatedOnceAtInit ==
  Phase >= 2 =>
    /\ instruments = {"requestsCounter", "activeRequests", "workDuration"}
    /\ \A n \in EmitterNames : emitterCalls[n] = 1

\* The spans of request r that have no parent.
RootSpans(r) ==
  {k \in SpanKinds : spans[r][k].state # "none" /\ spans[r][k].parent = NoSpan}

\* The trace ids of the spans of request r.
TraceIds(r) == {spans[r][k].trace : k \in {k \in SpanKinds : spans[r][k].state # "none"}}

\* C17: a /hello request that was answered has exactly one root span, all
\* its spans share one trace id, it emitted exactly one log record and that
\* record carries this trace id, and taking the request up increased the
\* /hello counter by exactly 1 and no other series; every log record any
\* handler emitted carries the trace id of its own request.
C17_HelloTelemetry ==
  /\ [](\A r \in Req :
          /\ (req[r].route = "/hello" /\ req[r].pc = "done") =>
               /\ Cardinality(RootSpans(r)) = 1
               /\ Cardinality(TraceIds(r)) = 1
               /\ req[r].infoLogs = 1 /\ req[r].errorLogs = 0
               /\ req[r].logTrace = TraceIds(r)
          /\ req[r].logTrace \subseteq {spans[r]["handler"].trace}
          /\ (req[r].infoLogs + req[r].errorLogs > 0) =>
               req[r].logTrace = {spans[r]["handler"].trace})
  /\ [][\A r \in Req :
          (req[r].pc = "arrived" /\ req'[r].pc # "arrived"
             /\ req[r].route = "/hello") =>
            /\ counter'["/hello"] = counter["/hello"] + 1
            /\ \A rt \in Routes \ {"/hello"} : counter'[rt] = counter[rt]]_vars

\* Two /hello requests were answered, each with its own trace id on its one
\* log record.
C17_Witness ==
  \E r \in Req : \E q \in Req :
    /\ r # q
    /\ req[r].route = "/hello" /\ req[r].pc = "done" /\ req[r].infoLogs = 1
    /\ req[q].route = "/hello" /\ req[q].pc = "done" /\ req[q].infoLogs = 1
    /\ req[r].logTrace = {r} /\ req[q].logTrace = {q}
    /\ counter["/hello"] = 2

\* A recorded duration, in milliseconds.
InMs(d) == d.s * 1000 + d.ms

\* The time between the start and the end of a span, in milliseconds.
SpanMs(sp) == sp.endT - sp.startT

\* C18: a /work request whose downstream call succeeded has recorded exactly
\* one histogram measurement, tagged success=true, whose duration is at
\* least the sum of workHandler's two simulated delays; the durations of the
\* request's workHandler span and of its server span are at least that sum
\* too.
C18_WorkDurationRecorded ==
  \A r \in Req :
    (req[r].route = "/work" /\ req[r].pc = "done" /\ req[r].status = 200) =>
      /\ Cardinality({h \in hist : h.req = r}) = 1
      /\ \A h \in hist :
           h.req = r =>
             /\ h.success
             /\ InMs(h.duration) >= WorkSleep1Ms + WorkSleep2Ms
      /\ SpanMs(spans[r]["handler"]) >= WorkSleep1Ms + WorkSleep2Ms
      /\ SpanMs(spans[r]["server"]) >= WorkSleep1Ms + WorkSleep2Ms

\* A /work request finished after a successful downstream call and recorded
\* the shortest duration the three sleeps allow.
C18_Witness ==
  \E r \in Req : \E h \in hist :
    /\ req[r].route = "/work" /\ req[r].pc = "done" /\ req[r].status = 200
    /\ h.req = r /\ h.success
    /\ InMs(h.duration) = WorkSleep1Ms + DownstreamSleepMs + WorkSleep2Ms

\* C19: initialization runs in the order resource, channel, the three
\* exporters, the three providers, registry installation, listener: no
\* provider is built or installed before all three exporters are built, so
\* an initialization that failed at an exporter leaves no provider
\* installed.
C19_ProvidersAfterAllExporters ==
  /\ conn # "none" => resource
  /\ exporters # {} => conn # "none"
  /\ exporters # Signals => (registry = {} /\ \A p \in Signals : prov[p] = "none")
  /\ listener # "off" => registry = Signals
  /\ \A i \in 3 .. 5 : initErr.msg = StageMsg(InitStages[i]) => registry = {}

\* C20: in every state where a provider has been shut down or the channel
\* has been closed no request handler is running, and from such a state on
\* no handler starts or ends a span, updates an instrument, emits a log
\* record or asks for an emitter.
C20_NoHandlerDuringShutdown ==
  /\ [](ShutdownBegun => \A r \in Req : req[r].pc \in {"free", "done", "panicked"})
  /\ [][ShutdownBegun =>
          /\ req' = req /\ spans' = spans
          /\ gauge' = gauge /\ counter' = counter /\ hist' = hist
          /\ emitterCalls' = emitterCalls]_vars

\* A request was in flight when the signal came, the drain waited for it,
\* and the closure has shut the first provider down after closing the
\* channel.
C20_Witness ==
  /\ ChannelClosed /\ prov["trace"] = "shutdown" /\ prov["metric"] = "running"
  /\ \E r \in inflightAtSignal : req[r].pc = "done" /\ req[r].status = 200

\* C21: the context the shutdown closure and each provider's Shutdown get
\* is the signal context: the closure runs only after the signal, so every
\* provider's Shutdown finds its context already cancelled; the fresh
\* 5-second context of the drain never reaches a provider.
C21_ShutdownUnderSignalCtx ==
  /\ pc \in {"shutdown", "returned"} => ctxDone
  /\ \A p \in Signals : flushEnv[p].ran => ~flushEnv[p].ctxLive

\* The drain returned in time, the closure returned nil, and all three
\* providers were shut down under the cancelled context.
C21_Witness ==
  /\ pc = "returned" /\ sdRet = Nil /\ ~deadlineHit
  /\ \A p \in Signals : flushEnv[p].ran /\ ~flushEnv[p].ctxLive
  /\ \E r \in Req : req[r].pc = "done"

\* Request r is a /work request whose downstream call has not reached the
\* server: the handler has not issued it, or no /downstream request has
\* arrived for it.
Uncalled(r) ==
  /\ req[r].route = "/work"
  /\ req[r].pc \in {"arrived", "sleep1", "calling"}
  /\ Hops(r) = {}

\* The step in which request r leaves workHandler through the
\* downstream-failure path: 5xx response, one error log, no histogram entry.
TakesFailurePath(r) ==
  /\ req'[r].pc = "done" /\ req'[r].status = 500
  /\ req'[r].errorLogs = 1
  /\ \A h \in hist' : h.req # r

\* C22 as stated: a /work request that is in flight when the termination
\* signal arrives and has not yet issued its downstream call never has that
\* call served, and when it is answered it is answered through the
\* downstream-failure path.
C22_SignalStopsHop ==
  \A r \in uncalledAtSignal :
    /\ Hops(r) = {}
    /\ req[r].pc = "done" =>
         /\ req[r].status = 500 /\ req[r].errorLogs = 1
         /\ \A h \in hist : h.req # r

\* C22: once Draining has begun (server.Shutdown has closed the listener)
\* the server takes up no new request, the internal hop included: a /work
\* request whose downstream call has not reached the server by then never
\* has the call served and, unless it panics, leaves through the
\* downstream-failure path.
C22_DrainingStopsHop ==
  [][listener = "closed" =>
       /\ \A q \in Req : req[q].pc = "free" => req'[q].pc = "free"
       /\ \A r \in Req :
            (Uncalled(r) /\ ~Uncalled(r)' /\ req'[r].pc # "panicked") =>
              TakesFailurePath(r)]_vars

\* A /work request had not issued its call at the signal, the drain began,
\* and the request left with a 500 without a /downstream request ever
\* arriving.
C22_Witness ==
  /\ listener = "closed" /\ ~deadlineHit
  /\ \E r \in uncalledAtSignal :
       /\ req[r].route = "/work" /\ req[r].pc = "done" /\ req[r].status = 500
       /\ req[r].errorLogs = 1 /\ \A h \in hist : h.req # r
       /\ Hops(r) = {}

\* C23: after a successful initialization every path on which the process
\* terminates has run the shutdown closure exactly once before the exit,
\* the path on which the listener fails included. (The path on which the
\* drain deadline expires is the subject of C5 and is left out here.)
C23_ShutdownOnEveryExit ==
  (Exited /\ shutdownFn /\ ~deadlineHit) =>
    /\ ShutdownReturned
    /\ Len(sdTrace) = Len(ShutdownStages)
    /\ ChannelClosed /\ AllProvidersShutDown

\* C24: workHandler decides success only by whether the outbound call
\* returned a transport error. Whenever a response was received, whatever
\* its status code, the request that ran to its end is answered with the
\* success body (200), has one histogram entry tagged success=true and no
\* error-severity log; when the call returned an error it is answered with
\* a 500.
C24_StatusCodeIgnored ==
  \A r \in Req :
    (req[r].route = "/work" /\ req[r].pc = "done") =>
      /\ req[r].res # 0 =>
           /\ req[r].status = 200
           /\ req[r].errorLogs = 0
           /\ Cardinality({h \in hist : h.req = r}) = 1
           /\ \A h \in hist : h.req = r => h.success
      /\ req[r].res = 0 =>
           /\ req[r].status = 500 /\ req[r].errorLogs = 1
           /\ \A h \in hist : h.req # r

\* The outbound call was answered with a 503 and the /work request was
\* answered with the success body and recorded success=true.
C24_Witness ==
  \E r \in Req :
    /\ req[r].res = 503
    /\ req[r].pc = "done" /\ req[r].status = 200 /\ req[r].errorLogs = 0
    /\ \E h \in hist : h.req = r /\ h.success

====
